---- MODULE Spec2Model ----
(***************************************************************************)
(* ProctorIQ frontend: the single-submission workflow of UploadPage        *)
(* (frontend/src/pages/UploadPage.tsx) over ApiService                     *)
(* (frontend/src/services/api.ts).                                         *)
(*                                                                         *)
(* The page's useState hooks are the variables studentName .. success     *)
(* (the optional paper number is passed through to the upload request and  *)
(* decides nothing, and is left out).                                      *)
(* Every run of the async handler handleSubmit is one entry of invs; the   *)
(* handler runs to completion between its awaits, so each segment between  *)
(* two awaits is one action.  Every request that reaches axios is logged   *)
(* in calls.  The remote service is the environment: remote and nextId.    *)
(***************************************************************************)
EXTENDS Integers, Sequences, FiniteSets, TLC

\* ---------------------------------------------------------------- bounds

\* handleSubmit runs that pass validation in one behaviour
MaxInvocations == 2
\* files the dropzone list holds at most
MaxFiles == 1
\* entries of one batch
MaxBatch == 3

\* ------------------------------------------------------------ input sets

\* text typed into a TextField, as a sequence of characters
TextInputs == { <<>>, <<" ">>, <<" ", "a">> }
\* what one drop hands to onDrop (an empty list when every file was rejected)
DropInputs == { <<>>, <<"a.pdf">> }
\* evaluation percentages the service may compute
Percentages == { "40", "90" }

\* ------------------------------------------------------- program values

Null == "null"
Undefined == "undefined"
NoId == 0
\* no evaluation: the percentage of a request or session that has none
NoResult == "none"

MsgNameRequired == "Student name is required"
MsgExamRequired == "Exam ID is required"
MsgFilesRequired == "Please upload at least one file"
MsgUploaded == "Files uploaded successfully! AI evaluation in progress..."
MsgCompleted == "Evaluation completed successfully!"
MsgUploadFailed == "Upload failed"

ValidationMessages == { MsgNameRequired, MsgExamRequired, MsgFilesRequired }

\* the timeout of the shared axios instance, in milliseconds
ApiTimeout == 120000

\* what an awaited request can throw: err.response?.data?.detail and err.message
TimeoutError == [detail |-> Undefined, message |-> "timeout of 120000ms exceeded"]
ServerError == [detail |-> "Evaluation failed", message |-> "Request failed with status code 500"]
BareError == [detail |-> "", message |-> ""]
TransportErrors == { TimeoutError, ServerError, BareError }

\* ------------------------------------------------------------- helpers

IsSpace(c) == c = " "

RECURSIVE TrimStart(_)
TrimStart(s) ==
    IF s # <<>> /\ IsSpace(Head(s)) THEN TrimStart(Tail(s)) ELSE s

RECURSIVE TrimEnd(_)
TrimEnd(s) ==
    IF s # <<>> /\ IsSpace(s[Len(s)]) THEN TrimEnd(SubSeq(s, 1, Len(s) - 1)) ELSE s

\* String.prototype.trim
Trim(s) == TrimEnd(TrimStart(s))

\* JavaScript truthiness of a string-or-undefined value
Falsy(v) == v \in { Undefined, Null, "" }

\* a || b
OrElse(a, b) == IF Falsy(a) THEN b ELSE a

\* the catch block without its last fallback
ErrorMessageNoFallback(err) == OrElse(err.detail, err.message)

\* the catch block's message: err.response?.data?.detail || err.message || 'Upload failed'
ErrorMessage(err) == OrElse(OrElse(err.detail, err.message), MsgUploadFailed)

\* the timeout axios applies to a request: no call passes its own, so the
\* instance default holds for every kind
RequestTimeout(kind) == ApiTimeout

VARIABLES
    studentName, examId, uploadedFiles,
    uploading, processing, error, success,
    invs, calls, caught, timers, route,
    remote, nextId, fetch,
    batch, remoteBatch

form == <<studentName, examId>>
flags == <<uploading, processing, error, success>>
page == <<studentName, examId, uploadedFiles, uploading, processing, error, success>>
server == <<remote, nextId>>
\* what callers of the batch methods hold, and the service's batch
batchVars == <<batch, remoteBatch>>
vars == <<studentName, examId, uploadedFiles, uploading, processing,
          error, success, invs, calls, caught, timers, route, remote, nextId, fetch,
          batch, remoteBatch>>

Ids == 1..MaxInvocations

UploadRoute == [path |-> "/upload", upload_id |-> NoId]
ResultsRoute(id) == [path |-> "/results", upload_id |-> id]

NoError == [detail |-> Undefined, message |-> Undefined]

\* no read has returned yet
NoFetch == [upload_id |-> NoId, status |-> "none", percentage |-> NoResult]

\* one settled or pending call of a batch method, as its caller sees it
NoCall == [status |-> "none", transport |-> "none", data |-> <<>>]

\* nothing was submitted as a batch yet
NoBatch == [request |-> <<>>, upload |-> NoCall, process |-> NoCall,
            read |-> NoCall, previous |-> NoCall]

\* the service holds no batch
NoRemoteBatch == [status |-> "none", members |-> <<>>, response |-> <<>>]

Init ==
    /\ studentName = <<>>
    /\ examId = <<>>
    /\ uploadedFiles = <<>>
    /\ uploading = FALSE
    /\ processing = FALSE
    /\ error = Null
    /\ success = Null
    /\ invs = <<>>
    /\ calls = <<>>
    /\ caught = NoError
    /\ timers = {}
    /\ route = UploadRoute
    /\ remote = [i \in Ids |-> [status |-> "none", percentage |-> NoResult]]
    /\ nextId = 1
    /\ fetch = NoFetch
    /\ batch = NoBatch
    /\ remoteBatch = NoRemoteBatch

\* the page is the rendered route
Mounted == route = UploadRoute

\* isFormValid
IsFormValid == Trim(studentName) # <<>> /\ Trim(examId) # <<>> /\ Len(uploadedFiles) > 0

\* a Submit button that looks at the form only
SubmitDisabledFormOnly == ~IsFormValid

\* the Submit button's disabled prop
SubmitDisabled == ~IsFormValid \/ uploading \/ processing

\* the disabled prop of the text fields and the delete buttons
InputsDisabled == uploading \/ processing

\* the model follows MaxInvocations runs of the handler; once they are used
\* up no edit of the form can lead to another
Budget == Len(invs) < MaxInvocations

\* ------------------------------------------------------- user's edits

SetStudentName(v) ==
    /\ Mounted /\ ~InputsDisabled /\ Budget
    /\ studentName' = v
    /\ UNCHANGED <<examId, uploadedFiles, flags, invs, calls, caught, timers, route, server, fetch, batchVars>>

SetExamId(v) ==
    /\ Mounted /\ ~InputsDisabled /\ Budget
    /\ examId' = v
    /\ UNCHANGED <<studentName, uploadedFiles, flags, invs, calls, caught, timers, route, server, fetch, batchVars>>

\* onDrop: the dropzone is never disabled
OnDrop(acceptedFiles) ==
    /\ Mounted
    /\ Len(uploadedFiles) + Len(acceptedFiles) <= MaxFiles
    /\ uploadedFiles' = uploadedFiles \o acceptedFiles
    /\ error' = Null
    /\ UNCHANGED <<form, uploading, processing, success, invs, calls, caught, timers, route, server, fetch, batchVars>>

RemoveFile(index) ==
    /\ Mounted /\ ~InputsDisabled /\ Budget
    /\ index \in 1..Len(uploadedFiles)
    /\ uploadedFiles' = [k \in 1..(Len(uploadedFiles) - 1) |->
                            IF k < index THEN uploadedFiles[k] ELSE uploadedFiles[k + 1]]
    /\ UNCHANGED <<form, flags, invs, calls, caught, timers, route, server, fetch, batchVars>>

\* the error Alert's onClose
CloseError ==
    /\ Mounted
    /\ error # Null
    /\ error' = Null
    /\ UNCHANGED <<form, uploadedFiles, uploading, processing, success, invs, calls, caught, timers, route, server, fetch, batchVars>>

\* ------------------------------------------------------- handleSubmit

\* handleSubmit comparing the raw field values, without trim()
ValidationErrorUntrimmed ==
    IF studentName = <<>> THEN MsgNameRequired
    ELSE IF examId = <<>> THEN MsgExamRequired
    ELSE IF Len(uploadedFiles) = 0 THEN MsgFilesRequired
    ELSE Null

\* the three checks at the head of handleSubmit: the message of the first
\* that fails, Null when all pass
ValidationError ==
    IF Trim(studentName) = <<>> THEN MsgNameRequired
    ELSE IF Trim(examId) = <<>> THEN MsgExamRequired
    ELSE IF Len(uploadedFiles) = 0 THEN MsgFilesRequired
    ELSE Null

\* the request uploadAnswerSheet posts for run i of the handler
UploadCall(i) ==
    [inv |-> i, kind |-> "upload",
     files |-> uploadedFiles,
     student_name |-> Trim(studentName),
     exam_id |-> Trim(examId),
     upload_id |-> NoId, status |-> "outstanding",
     timeout |-> RequestTimeout("upload"), percentage |-> NoResult]

\* the request processAnswerSheet(uploadId) posts for run i
ProcessCall(i, uploadId) ==
    [inv |-> i, kind |-> "process",
     files |-> <<>>, student_name |-> <<>>, exam_id |-> <<>>,
     upload_id |-> uploadId, status |-> "outstanding",
     timeout |-> RequestTimeout("process"), percentage |-> NoResult]

\* processAnswerSheet given an id kept from the first run instead of this
\* run's uploadResponse
ProcessArgStale(i, uploadResponse) ==
    IF i = 1 THEN uploadResponse.upload_id ELSE invs[1].upload_id

\* the argument handleSubmit gives processAnswerSheet
ProcessArg(i, uploadResponse) == uploadResponse.upload_id

\* processAnswerSheet sent twice for the same upload
ProcessRequestsTwice(i, uploadResponse) ==
    << ProcessCall(i, uploadResponse.upload_id), ProcessCall(i, uploadResponse.upload_id) >>

\* a handler that awaits a process request it never sends
ProcessRequestsNone(i, uploadResponse) == <<>>

\* the requests handleSubmit sends once the upload has resolved: one
\* processAnswerSheet call
ProcessRequests(i, uploadResponse) ==
    << ProcessCall(i, ProcessArg(i, uploadResponse)) >>

\* navigation built from a field the upload response does not have
NavigateTargetUndefined(i, uploadResponse) == NoId

\* the target of the navigation handleSubmit schedules
NavigateTarget(i, uploadResponse) == uploadResponse.upload_id

Outstanding(i, kind) ==
    { k \in 1..Len(calls) :
        calls[k].inv = i /\ calls[k].kind = kind /\ calls[k].status = "outstanding" }

\* handleSubmit up to its first await
HandleSubmit ==
    \/ /\ ValidationError # Null
       /\ error' = ValidationError
       /\ UNCHANGED <<form, uploadedFiles, uploading, processing, success,
                      invs, calls, caught, timers, route, server, fetch, batchVars>>
    \/ /\ ValidationError = Null
       /\ Len(invs) < MaxInvocations
       /\ uploading' = TRUE
       /\ error' = Null
       /\ success' = Null
       /\ invs' = Append(invs, [pc |-> "awaitUpload", upload_id |-> NoId])
       /\ calls' = Append(calls, UploadCall(Len(invs) + 1))
       /\ UNCHANGED <<form, uploadedFiles, processing, caught, timers, route, server, fetch, batchVars>>

\* a click on the Submit button: a disabled button dispatches no click
ClickSubmit ==
    /\ Mounted
    /\ ~SubmitDisabled
    /\ HandleSubmit

\* handleSubmit called as a function, whatever the button shows
CallHandleSubmit ==
    /\ Mounted
    /\ HandleSubmit

\* an upload continuation that leaves setUploading(false) to the finally block
UploadOkKeepsUploading(i) ==
    /\ i \in 1..Len(invs)
    /\ invs[i].pc = "awaitUpload"
    /\ nextId \in Ids
    /\ \E k \in Outstanding(i, "upload") :
        LET uploadResponse == [upload_id |-> nextId] IN
        /\ calls' = [calls EXCEPT ![k].status = "ok", ![k].upload_id = nextId]
                      \o ProcessRequests(i, uploadResponse)
        /\ invs' = [invs EXCEPT ![i] = [pc |-> "awaitProcess", upload_id |-> nextId]]
        /\ remote' = [remote EXCEPT ![nextId].status = "uploaded"]
        /\ nextId' = nextId + 1
        /\ success' = MsgUploaded
        /\ processing' = TRUE
        /\ UNCHANGED <<form, uploadedFiles, uploading, error, caught, timers, route, fetch, batchVars>>

\* the upload request resolves: the service stores the files under a new id,
\* and the handler runs on to its second await
UploadOk(i) ==
    /\ i \in 1..Len(invs)
    /\ invs[i].pc = "awaitUpload"
    /\ nextId \in Ids
    /\ \E k \in Outstanding(i, "upload") :
        LET uploadResponse == [upload_id |-> nextId] IN
        /\ calls' = [calls EXCEPT ![k].status = "ok", ![k].upload_id = nextId]
                      \o ProcessRequests(i, uploadResponse)
        /\ invs' = [invs EXCEPT ![i] = [pc |-> "awaitProcess", upload_id |-> nextId]]
        /\ remote' = [remote EXCEPT ![nextId].status = "uploaded"]
        /\ nextId' = nextId + 1
        /\ success' = MsgUploaded
        /\ processing' = TRUE
        /\ uploading' = FALSE
        /\ UNCHANGED <<form, uploadedFiles, error, caught, timers, route, fetch, batchVars>>

\* a catch block that sends the failed request again instead of giving up
CatchFinallyRetry(i, k, err) ==
    /\ calls' = Append([calls EXCEPT ![k].status = "failed"],
                       [calls[k] EXCEPT !.status = "outstanding"])
    /\ caught' = err
    /\ UNCHANGED <<page, invs, timers, route, server, fetch, batchVars>>

\* a catch block that logs the error and shows nothing
CatchFinallySilent(i, k, err) ==
    /\ calls' = [calls EXCEPT ![k].status = "failed"]
    /\ caught' = err
    /\ invs' = [invs EXCEPT ![i].pc = "failed"]
    /\ uploading' = FALSE
    /\ processing' = FALSE
    /\ UNCHANGED <<form, uploadedFiles, error, success, timers, route, server, fetch, batchVars>>

\* a catch block that also schedules the navigation to the results view
CatchFinallyNavigates(i, k, err) ==
    /\ calls' = [calls EXCEPT ![k].status = "failed"]
    /\ caught' = err
    /\ invs' = [invs EXCEPT ![i].pc = "failed"]
    /\ error' = ErrorMessage(err)
    /\ timers' = timers \cup { invs[i].upload_id }
    /\ uploading' = FALSE
    /\ processing' = FALSE
    /\ UNCHANGED <<form, uploadedFiles, success, route, server, fetch, batchVars>>

\* the catch and finally blocks of run i, for the request k that threw err
CatchFinally(i, k, err) ==
    /\ calls' = [calls EXCEPT ![k].status = "failed"]
    /\ caught' = err
    /\ invs' = [invs EXCEPT ![i].pc = "failed"]
    /\ error' = ErrorMessage(err)
    /\ uploading' = FALSE
    /\ processing' = FALSE
    /\ UNCHANGED <<form, uploadedFiles, success, timers, route, server, fetch, batchVars>>

\* the upload request rejects
UploadFail(i, err) ==
    /\ i \in 1..Len(invs)
    /\ invs[i].pc = "awaitUpload"
    /\ \E k \in Outstanding(i, "upload") : CatchFinally(i, k, err)

\* the service finishes evaluating a session it was asked to process; it does
\* so whether or not the client still waits
ServerEvaluate(id, pct) ==
    /\ remote[id].status = "uploaded"
    /\ \E k \in 1..Len(calls) : calls[k].kind = "process" /\ calls[k].upload_id = id
    /\ remote' = [remote EXCEPT ![id] = [status |-> "evaluated", percentage |-> pct]]
    /\ UNCHANGED <<page, invs, calls, caught, timers, route, nextId, fetch, batchVars>>

\* the process request resolves with the evaluation; the handler runs to its end
ProcessOk(i) ==
    /\ i \in 1..Len(invs)
    /\ invs[i].pc = "awaitProcess"
    /\ \E k \in Outstanding(i, "process") :
        /\ calls[k].upload_id \in Ids
        /\ remote[calls[k].upload_id].status = "evaluated"
        /\ calls' = [calls EXCEPT ![k].status = "ok",
                                  ![k].percentage = remote[calls[k].upload_id].percentage]
        /\ invs' = [invs EXCEPT ![i].pc = "succeeded"]
        /\ success' = MsgCompleted
        /\ timers' = timers \cup { NavigateTarget(i, [upload_id |-> invs[i].upload_id]) }
        /\ uploading' = FALSE
        /\ processing' = FALSE
        /\ UNCHANGED <<form, uploadedFiles, error, caught, route, server, fetch, batchVars>>

\* the process request rejects (timeout, connection loss, a 5xx answer)
ProcessFail(i, err) ==
    /\ i \in 1..Len(invs)
    /\ invs[i].pc = "awaitProcess"
    /\ \E k \in Outstanding(i, "process") : CatchFinally(i, k, err)

\* a timer callback that also clears the page's messages before navigating
NavigateTimerResets(id) ==
    /\ id \in timers
    /\ timers' = timers \ {id}
    /\ route' = ResultsRoute(id)
    /\ success' = Null
    /\ error' = Null
    /\ UNCHANGED <<form, uploadedFiles, uploading, processing, invs, calls, caught, server, fetch, batchVars>>

\* the setTimeout callback: navigate(`/results/${uploadResponse.upload_id}`)
NavigateTimer(id) ==
    /\ id \in timers
    /\ timers' = timers \ {id}
    /\ route' = ResultsRoute(id)
    /\ UNCHANGED <<page, invs, calls, caught, server, fetch, batchVars>>

\* --------------------------------------------------- the read requests

\* an id the client was given: some upload returned it
KnownId(id) == \E i \in 1..Len(invs) : invs[i].upload_id = id

\* a read whose result is written back into the page's state
ReadSettledUpdatesPage(id, status, data) ==
    /\ fetch' = [upload_id |-> id, status |-> status, percentage |-> data]
    /\ success' = IF status = "ok" THEN MsgCompleted ELSE success
    /\ error' = IF status = "ok" THEN Null ELSE error
    /\ UNCHANGED <<form, uploadedFiles, uploading, processing, invs, calls, caught, timers, route, server, batchVars>>

\* what the caller of getEvaluationResults holds once the promise settles:
\* response.data, or the rejection; the method touches nothing else
ReadSettled(id, status, data) ==
    /\ fetch' = [upload_id |-> id, status |-> status, percentage |-> data]
    /\ UNCHANGED <<page, invs, calls, caught, timers, route, server, batchVars>>

\* getEvaluationResults(uploadId) resolves with the stored evaluation
GetEvaluationResultsOk(id) ==
    /\ KnownId(id)
    /\ remote[id].status = "evaluated"
    /\ ReadSettled(id, "ok", remote[id].percentage)

\* getEvaluationResults(uploadId) rejects (no evaluation stored under the id,
\* a timeout, connection loss)
GetEvaluationResultsFail(id) ==
    /\ KnownId(id)
    /\ ReadSettled(id, "failed", NoResult)

\* ------------------------------------------------------ the batch methods

\* the entries a caller puts into one FormData: two complete ones and one whose
\* exam id is blank
EntryInputs ==
    { [student_name |-> <<"a">>, exam_id |-> <<"x">>, files |-> <<"a.pdf">>],
      [student_name |-> <<"b">>, exam_id |-> <<"x">>, files |-> <<"b.pdf">>],
      [student_name |-> <<"c">>, exam_id |-> <<" ">>, files |-> <<"c.pdf">>] }

\* the FormData values handed to uploadMultipleAnswerSheets
BatchInputs == UNION { [1..n -> EntryInputs] : n \in 1..MaxBatch }

\* evaluation.total_marks of a successful member
Marks == { 8, 18 }

\* the only batch the service creates here
BatchId == 1

\* a call whose promise is pending
PendingCall == [status |-> "outstanding", transport |-> "none", data |-> <<>>]

\* a rejected promise: axios throws on a timeout, a network error or a non-2xx status
Rejects == [status |-> "failed", transport |-> "error", data |-> <<>>]

\* uploadMultipleAnswerSheets: return response.data
UploadMultipleReturn(response) ==
    [status |-> "ok", transport |-> response.status, data |-> response.data]

\* successes before errors
SuccessFirst(results) ==
    SelectSeq(results, LAMBDA r : r.status = "success")
        \o SelectSeq(results, LAMBDA r : r.status = "error")

ProcessBatchReturnStrict(response) ==
    IF \E k \in 1..Len(response.data.results) : response.data.results[k].status = "error"
    THEN Rejects
    ELSE [status |-> "ok", transport |-> response.status, data |-> response.data]

ProcessBatchReturnSorted(response) ==
    [status |-> "ok", transport |-> response.status,
     data |-> [response.data EXCEPT !.results = SuccessFirst(response.data.results)]]

\* processBatchAnswerSheets: return response.data
ProcessBatchReturn(response) ==
    [status |-> "ok", transport |-> response.status, data |-> response.data]

\* getBatchEvaluationResults: return response.data
GetBatchReturn(response) ==
    [status |-> "ok", transport |-> response.status, data |-> response.data]

\* the service's answer to an accepted upload: one session per entry it was
\* sent, in the order of the request
BatchSessions(request) ==
    [k \in 1..Len(request) |->
        [upload_id |-> k,
         student_name |-> request[k].student_name,
         files_count |-> Len(request[k].files)]]

BatchUploadData(request) ==
    [batch_id |-> BatchId,
     total_students |-> Len(request),
     uploaded_sessions |-> BatchSessions(request)]

\* a member whose evaluation failed carries no marks
NoMarks == 0

\* one outcome of a member: evaluated with some marks, or an error
MemberResult(member, outcome) ==
    IF outcome = NoMarks
    THEN [upload_id |-> member.upload_id, student_name |-> member.student_name,
          status |-> "error", total_marks |-> NoMarks, error |-> "Evaluation failed"]
    ELSE [upload_id |-> member.upload_id, student_name |-> member.student_name,
          status |-> "success", total_marks |-> outcome, error |-> Undefined]

\* the service evaluates the members independently: every combination of
\* outcomes, one per member, in the order of the members
BatchResults(members) ==
    { [k \in 1..Len(members) |-> MemberResult(members[k], f[k])] :
        f \in [1..Len(members) -> Marks \cup { NoMarks }] }

RECURSIVE MarksAwarded(_)
MarksAwarded(results) ==
    IF results = <<>> THEN 0
    ELSE ( IF Head(results).status = "success" THEN Head(results).total_marks ELSE 0 )
         + MarksAwarded(Tail(results))

\* the counts and sums of an outcome set
Statistics(results) ==
    [total_students |-> Len(results),
     successful |-> Cardinality({ k \in 1..Len(results) : results[k].status = "success" }),
     failed |-> Cardinality({ k \in 1..Len(results) : results[k].status = "error" }),
     total_marks_awarded |-> MarksAwarded(results)]

\* the statistics the service sends with an outcome set: the derived ones, or
\* ones that count every member as successful
RemoteStatistics(results) ==
    { Statistics(results),
      [Statistics(results) EXCEPT !.successful = Len(results)] }

\* uploadMultipleAnswerSheets(formData): one POST carrying the FormData as given
UploadMultipleAnswerSheets(formData) ==
    /\ batch.upload.status = "none"
    /\ batch' = [batch EXCEPT !.request = formData, !.upload = PendingCall]
    /\ UNCHANGED <<page, invs, calls, caught, timers, route, server, fetch, remoteBatch>>

UploadMultipleOk ==
    /\ batch.upload.status = "outstanding"
    /\ remoteBatch' = [status |-> "uploaded",
                       members |-> BatchSessions(batch.request),
                       response |-> <<>>]
    /\ batch' = [batch EXCEPT !.upload =
                    UploadMultipleReturn([status |-> "200",
                                          data |-> BatchUploadData(batch.request)])]
    /\ UNCHANGED <<page, invs, calls, caught, timers, route, server, fetch>>

UploadMultipleFail ==
    /\ batch.upload.status = "outstanding"
    /\ batch' = [batch EXCEPT !.upload = Rejects]
    /\ UNCHANGED <<page, invs, calls, caught, timers, route, server, fetch, remoteBatch>>

\* processBatchAnswerSheets(batchId): one POST for the whole batch
ProcessBatchAnswerSheets ==
    /\ batch.upload.status = "ok"
    /\ batch.process.status = "none"
    /\ batch' = [batch EXCEPT !.process = PendingCall]
    /\ UNCHANGED <<page, invs, calls, caught, timers, route, server, fetch, remoteBatch>>

ProcessBatchOk(results, statistics) ==
    /\ batch.process.status = "outstanding"
    /\ remoteBatch.status = "uploaded"
    /\ remoteBatch' = [remoteBatch EXCEPT
                          !.status = "processed",
                          !.response = [batch_id |-> batch.upload.data.batch_id,
                                        statistics |-> statistics,
                                        results |-> results]]
    /\ batch' = [batch EXCEPT !.process =
                    ProcessBatchReturn([status |-> "200", data |-> remoteBatch'.response])]
    /\ UNCHANGED <<page, invs, calls, caught, timers, route, server, fetch>>

ProcessBatchFail ==
    /\ batch.process.status = "outstanding"
    /\ batch' = [batch EXCEPT !.process = Rejects]
    /\ UNCHANGED <<page, invs, calls, caught, timers, route, server, fetch, remoteBatch>>

\* a read of the batch that also sends the batch back to evaluation
GetBatchEvaluationResultsReprocesses ==
    /\ batch.upload.status = "ok"
    /\ remoteBatch.status = "processed"
    /\ batch' = [batch EXCEPT
                    !.previous = batch.read,
                    !.read = GetBatchReturn([status |-> "200", data |-> remoteBatch.response])]
    /\ remoteBatch' = [remoteBatch EXCEPT !.status = "uploaded"]
    /\ UNCHANGED <<page, invs, calls, caught, timers, route, server, fetch>>

\* getBatchEvaluationResults(batchId) resolves with the stored results of a
\* processed batch; the caller keeps the result of the read before it too
GetBatchEvaluationResultsOk ==
    /\ batch.upload.status = "ok"
    /\ remoteBatch.status = "processed"
    /\ batch' = [batch EXCEPT
                    !.previous = batch.read,
                    !.read = GetBatchReturn([status |-> "200", data |-> remoteBatch.response])]
    /\ UNCHANGED <<page, invs, calls, caught, timers, route, server, fetch, remoteBatch>>

\* getBatchEvaluationResults(batchId) rejects (no results stored for the batch,
\* a timeout, connection loss)
GetBatchEvaluationResultsFail ==
    /\ batch.upload.status = "ok"
    /\ batch' = [batch EXCEPT !.previous = batch.read, !.read = Rejects]
    /\ UNCHANGED <<page, invs, calls, caught, timers, route, server, fetch, remoteBatch>>

\* ------------------------------------------------------ specifications

UserEdit ==
    \/ \E v \in TextInputs : SetStudentName(v)
    \/ \E v \in TextInputs : SetExamId(v)
    \/ \E a \in DropInputs : OnDrop(a)
    \/ \E index \in 1..MaxFiles : RemoveFile(index)
    \/ CloseError

Responses ==
    \/ \E i \in 1..MaxInvocations : UploadOk(i)
    \/ \E i \in 1..MaxInvocations, err \in TransportErrors : UploadFail(i, err)
    \/ \E i \in 1..MaxInvocations : ProcessOk(i)
    \/ \E i \in 1..MaxInvocations, err \in TransportErrors : ProcessFail(i, err)

Environment ==
    \/ \E id \in Ids, pct \in Percentages : ServerEvaluate(id, pct)
    \/ \E id \in Ids : NavigateTimer(id)

Reads ==
    \/ \E id \in Ids : GetEvaluationResultsOk(id)
    \/ \E id \in Ids : GetEvaluationResultsFail(id)

\* the page as the user drives it
Next == UserEdit \/ ClickSubmit \/ Responses \/ Environment \/ Reads

Spec == Init /\ [][Next]_vars

\* the handler called directly, the button's disabled prop notwithstanding
\* (the read requests, which no run of the handler sends, are left to Spec)
NextHandler == UserEdit \/ CallHandleSubmit \/ Responses \/ Environment

SpecHandler == Init /\ [][NextHandler]_vars

\* every request the page sends returns: it resolves, rejects, or is cut off
\* by the axios timeout, so a response step that stays possible is taken
SpecLive == Init /\ [][Next]_vars /\ WF_vars(Responses)

\* the batch methods on their own: a caller submits one batch and has it processed
NextBatch ==
    \/ \E formData \in BatchInputs : UploadMultipleAnswerSheets(formData)
    \/ UploadMultipleOk
    \/ UploadMultipleFail
    \/ ProcessBatchAnswerSheets
    \/ \E results \in BatchResults(remoteBatch.members) :
          \E statistics \in RemoteStatistics(results) : ProcessBatchOk(results, statistics)
    \/ ProcessBatchFail

SpecBatch == Init /\ [][NextBatch]_vars


\* a page on which one run has ended: the name, the exam id and a file were
\* entered, Submit was clicked, the upload resolved with id 1 and the process
\* request timed out
InitReads ==
    /\ studentName = <<" ", "a">>
    /\ examId = <<" ", "a">>
    /\ uploadedFiles = <<"a.pdf">>
    /\ uploading = FALSE
    /\ processing = FALSE
    /\ error = ErrorMessage(TimeoutError)
    /\ success = MsgUploaded
    /\ invs = << [pc |-> "failed", upload_id |-> 1] >>
    /\ calls = << [UploadCall(1) EXCEPT !.status = "ok", !.upload_id = 1],
                  [ProcessCall(1, 1) EXCEPT !.status = "failed"] >>
    /\ caught = TimeoutError
    /\ timers = {}
    /\ route = UploadRoute
    /\ remote = [id \in Ids |->
                    [status |-> IF id = 1 THEN "uploaded" ELSE "none",
                     percentage |-> NoResult]]
    /\ nextId = 2
    /\ fetch = NoFetch
    /\ batch = NoBatch
    /\ remoteBatch = NoRemoteBatch

\* the batch whose results are read: the two complete entries
ReadBatchInputs ==
    { formData \in BatchInputs :
        /\ Len(formData) = 2
        /\ formData[1].student_name = <<"a">>
        /\ formData[2].student_name = <<"b">> }

BatchReads ==
    \/ GetBatchEvaluationResultsOk
    \/ GetBatchEvaluationResultsFail

\* the reads of the results of one submission and of one batch, while the
\* service may still finish the evaluation of the submission
NextReads ==
    \/ Reads
    \/ \E id \in Ids, pct \in Percentages : ServerEvaluate(id, pct)
    \/ \E formData \in ReadBatchInputs : UploadMultipleAnswerSheets(formData)
    \/ UploadMultipleOk
    \/ UploadMultipleFail
    \/ ProcessBatchAnswerSheets
    \/ \E results \in BatchResults(remoteBatch.members) :
          \E statistics \in RemoteStatistics(results) : ProcessBatchOk(results, statistics)
    \/ ProcessBatchFail
    \/ BatchReads

SpecReads == InitReads /\ [][NextReads]_vars

\* ------------------------------------------------------------ the claims

CallsOf(i, kind) == { k \in 1..Len(calls) : calls[k].inv = i /\ calls[k].kind = kind }

\* request k is rejected in this step
Rejected(k) ==
    /\ k \in 1..Len(calls)
    /\ calls[k].status = "outstanding"
    /\ calls'[k].status = "failed"

\* request k is resolved in this step
Resolved(k) ==
    /\ k \in 1..Len(calls)
    /\ calls[k].status = "outstanding"
    /\ calls'[k].status = "ok"

\* the form as handleSubmit would refuse it
InvalidForm == Trim(studentName) = <<>> \/ Trim(examId) = <<>> \/ Len(uploadedFiles) = 0

\* C1: a call of handleSubmit on a form whose trimmed student name or trimmed
\* exam id is empty, or whose file list is empty, sends no request, starts no
\* run (uploading and processing keep their values, false when no run is in
\* flight) and sets a validation message; so every upload request ever sent
\* carries a non-empty name, a non-empty exam id and at least one file.
C1_ValidationBlocksTransport ==
    /\ [](\A k \in 1..Len(calls) :
            calls[k].kind = "upload" =>
                /\ calls[k].student_name # <<>>
                /\ calls[k].exam_id # <<>>
                /\ calls[k].files # <<>>)
    /\ [][(InvalidForm /\ CallHandleSubmit) =>
            /\ calls' = calls
            /\ invs' = invs
            /\ uploading' = uploading
            /\ processing' = processing
            /\ error' \in ValidationMessages]_vars

\* a handler call was refused for a whitespace-only exam id
C1_Witness ==
    /\ error = MsgExamRequired
    /\ examId = <<" ">>
    /\ Trim(studentName) # <<>>
    /\ ~uploading /\ ~processing
    /\ calls = <<>>

\* C2: every process request follows a resolved upload request of the same
\* run and carries the id that upload returned, and no run has its upload and
\* its process request outstanding together.
C2_ProcessAfterSubmit ==
    /\ \A k \in 1..Len(calls) :
        calls[k].kind = "process" =>
            \E j \in 1..(k - 1) :
                /\ calls[j].kind = "upload"
                /\ calls[j].inv = calls[k].inv
                /\ calls[j].status = "ok"
                /\ calls[j].upload_id = calls[k].upload_id
    /\ \A i \in 1..Len(invs) :
        Outstanding(i, "upload") = {} \/ Outstanding(i, "process") = {}

\* the second run's process request is outstanding
C2_Witness ==
    \E k \in 1..Len(calls) :
        /\ calls[k].kind = "process"
        /\ calls[k].inv = 2
        /\ calls[k].status = "outstanding"

\* C3: when the upload request of a run is rejected, the run ends failed
\* with the catch block's message shown and neither flag set, and the run
\* never sends a process request.
C3_SubmitFailureStops ==
    /\ [](\A i \in 1..Len(invs) :
            (\E k \in CallsOf(i, "upload") : calls[k].status = "failed") =>
                /\ invs[i].pc = "failed"
                /\ CallsOf(i, "process") = {})
    /\ [][\A k \in 1..Len(calls) :
            (Rejected(k) /\ calls[k].kind = "upload") =>
                /\ invs'[calls[k].inv].pc = "failed"
                /\ error' = ErrorMessage(caught')
                /\ error' # Null
                /\ ~uploading' /\ ~processing'
                /\ Len(calls') = Len(calls)]_vars

\* an upload was rejected with a server answer, whose detail is shown
C3_Witness ==
    \E k \in 1..Len(calls) :
        /\ calls[k].kind = "upload"
        /\ calls[k].status = "failed"
        /\ invs[calls[k].inv].pc = "failed"
        /\ caught = ServerError
        /\ error = "Evaluation failed"

\* C4: whichever request is rejected, upload or process, and whatever was
\* thrown, the run ends failed with neither flag set and an error message
\* that is a non-empty string taken from the thrown error (its detail, else
\* its message) or, when it has neither, the fixed text 'Upload failed'.
C4_FailureAlwaysSurfaced ==
    [][\A k \in 1..Len(calls) :
        Rejected(k) =>
            /\ invs'[calls[k].inv].pc = "failed"
            /\ ~uploading' /\ ~processing'
            /\ ~Falsy(error')
            /\ \/ error' = caught'.detail
               \/ Falsy(caught'.detail) /\ error' = caught'.message
               \/ Falsy(caught'.detail) /\ Falsy(caught'.message) /\ error' = MsgUploadFailed]_vars

\* a process request was rejected with an error that has neither detail nor
\* message, and the fallback text is shown
C4_Witness ==
    \E k \in 1..Len(calls) :
        /\ calls[k].kind = "process"
        /\ calls[k].status = "failed"
        /\ caught = BareError
        /\ error = MsgUploadFailed
        /\ ~uploading /\ ~processing

\* the string hooks a run of handleSubmit writes: all the page's state that
\* could show an evaluation
HookValues == { error, success }

\* the latest run has ended with its process request resolved
Succeeded(k) ==
    /\ calls[k].kind = "process"
    /\ calls[k].status = "ok"
    /\ calls[k].inv = Len(invs)

C6_NoAutomaticRetry ==
    /\ \A i \in 1..Len(invs) :
        /\ Cardinality(CallsOf(i, "upload")) = 1
        /\ Cardinality(CallsOf(i, "process")) <= 1
        /\ invs[i].pc = "failed" =>
              Outstanding(i, "upload") = {} /\ Outstanding(i, "process") = {}
    /\ (Len(invs) > 0 /\ invs[Len(invs)].pc = "failed") =>
          \A k \in 1..Len(calls) : calls[k].status # "outstanding"
    /\ \A j \in 1..Len(invs) : \A k \in CallsOf(j, "process") :
        /\ \E u \in CallsOf(j, "upload") :
              calls[u].status = "ok" /\ calls[u].upload_id = calls[k].upload_id
        /\ \A i \in 1..(j - 1) : invs[i].upload_id # calls[k].upload_id

\* the user submitted again after a failed evaluation, and the new run has
\* sent its process request
C6_Witness ==
    /\ Len(invs) = 2
    /\ invs[1].pc = "failed"
    /\ invs[1].upload_id # NoId
    /\ CallsOf(2, "process") # {}

\* C7: no two process requests for one id are outstanding together.
C7_NoConcurrentProcess ==
    \A k1, k2 \in 1..Len(calls) :
        ( /\ k1 # k2
          /\ calls[k1].kind = "process" /\ calls[k2].kind = "process"
          /\ calls[k1].status = "outstanding" /\ calls[k2].status = "outstanding" )
        => calls[k1].upload_id # calls[k2].upload_id

\* a process request is outstanding after an earlier one, of the run before,
\* was rejected
C7_Witness ==
    \E k1, k2 \in 1..Len(calls) :
        /\ k1 < k2
        /\ calls[k1].kind = "process" /\ calls[k1].status = "failed"
        /\ calls[k2].kind = "process" /\ calls[k2].status = "outstanding"

\* C8 as stated: the timeout of a process request is strictly longer than
\* the timeout of an upload request and of the two read requests.
C8_ProcessTimeoutLonger ==
    \A k \in 1..Len(calls) :
        calls[k].kind = "process" =>
            /\ \A j \in 1..Len(calls) :
                  calls[j].kind = "upload" => calls[k].timeout > calls[j].timeout
            /\ calls[k].timeout > RequestTimeout("results")
            /\ calls[k].timeout > RequestTimeout("uploads")

\* the latest run has ended, and no run is in flight
Terminal ==
    /\ Len(invs) > 0
    /\ invs[Len(invs)].pc \in { "succeeded", "failed" }

\* C9: once the latest run has ended, no response, timer, service step or
\* read changes the flags, the messages, the runs or the requests; and the
\* only step that starts a run is a click on Submit.
C9_TerminalIsStable ==
    /\ [][(Terminal /\ (Responses \/ Environment \/ Reads)) =>
            UNCHANGED <<uploading, processing, error, success, invs, calls>>]_vars
    /\ [][Len(invs') > Len(invs) => ClickSubmit]_vars

\* the navigation timer has fired after a successful run
C9_Witness ==
    /\ Terminal
    /\ invs[Len(invs)].pc = "succeeded"
    /\ route = ResultsRoute(invs[Len(invs)].upload_id)
    /\ success = MsgCompleted

\* the latest run failed because its process request for id timed out
FailedByTimeout(id) ==
    /\ Terminal
    /\ invs[Len(invs)].pc = "failed"
    /\ invs[Len(invs)].upload_id = id
    /\ caught = TimeoutError
    /\ \E k \in CallsOf(Len(invs), "process") :
          calls[k].upload_id = id /\ calls[k].status = "failed"

\* C10: a process request that times out ends the run failed with the
\* timeout message shown; a later read of the same id that returns the
\* evaluation leaves the flags, the messages, the runs and the requests as
\* they were.
C10_LateSuccessKeepsFailed ==
    /\ [][\A k \in 1..Len(calls) :
            (Rejected(k) /\ calls[k].kind = "process" /\ caught' = TimeoutError) =>
                /\ invs'[calls[k].inv].pc = "failed"
                /\ error' = TimeoutError.message]_vars
    /\ [][\A id \in Ids :
            ( /\ FailedByTimeout(id)
              /\ fetch' # fetch
              /\ fetch'.upload_id = id
              /\ fetch'.status = "ok" ) =>
                /\ UNCHANGED <<uploading, processing, error, success, invs, calls>>
                /\ fetch'.percentage = remote[id].percentage]_vars

\* after the timeout the service finished, and a read of the id returned the
\* evaluation while the page still shows the timeout
C10_Witness ==
    \E id \in Ids :
        /\ FailedByTimeout(id)
        /\ error = TimeoutError.message
        /\ fetch = [upload_id |-> id, status |-> "ok", percentage |-> "90"]

\* C11 as stated: once the upload request of the latest run has resolved, the
\* page holds no pending file any more.
C11_FilesDiscardedAfterUpload ==
    \A k \in 1..Len(calls) :
        ( /\ calls[k].kind = "upload"
          /\ calls[k].status = "ok"
          /\ calls[k].inv = Len(invs) )
        => uploadedFiles = <<>>

\* the outcome sets a caller of the batch methods holds
HeldOutcomes ==
    { c.data : c \in { d \in { batch.process, batch.read, batch.previous } : d.status = "ok" } }

HasStatus(results, status) == \E k \in 1..Len(results) : results[k].status = status

\* C12: the process call of a batch resolves with the whole response whenever
\* the request itself succeeded, whatever the statuses of the members in it,
\* and it fails only when the request failed (the service answers a request
\* once it has processed the batch).
C12_MemberErrorsDoNotFailBatch ==
    /\ remoteBatch.status = "processed" =>
          /\ batch.process.status = "ok"
          /\ batch.process.data = remoteBatch.response
    /\ batch.process.status = "failed" =>
          /\ batch.process.transport = "error"
          /\ remoteBatch.status # "processed"

\* a resolved process call whose response mixes a success and an error
C12_Witness ==
    /\ batch.process.status = "ok"
    /\ HasStatus(batch.process.data.results, "success")
    /\ HasStatus(batch.process.data.results, "error")

\* C13 as stated: the statistics of every outcome set held add up.
C13_CountsAddUp ==
    \A d \in HeldOutcomes :
        d.statistics.successful + d.statistics.failed = d.statistics.total_students

\* C14 as stated: the statistics of every outcome set held are the counts and
\* sums of the results held with them.
C14_StatisticsRecomputed ==
    \A d \in HeldOutcomes : d.statistics = Statistics(d.results)

\* C15: a processed batch holds one outcome per accepted entry, the k-th
\* outcome being that of the k-th entry of the request.
C15_OutcomesMirrorSubmission ==
    batch.process.status = "ok" =>
        /\ Len(batch.process.data.results) = Len(batch.upload.data.uploaded_sessions)
        /\ Len(batch.process.data.results) = Len(batch.request)
        /\ \A k \in 1..Len(batch.request) :
              /\ batch.process.data.results[k].upload_id
                    = batch.upload.data.uploaded_sessions[k].upload_id
              /\ batch.process.data.results[k].student_name = batch.request[k].student_name

\* three entries processed, an error before a success
C15_Witness ==
    /\ batch.process.status = "ok"
    /\ Len(batch.request) = 3
    /\ batch.request[1].student_name # batch.request[2].student_name
    /\ batch.process.data.results[1].status = "error"
    /\ batch.process.data.results[2].status = "success"

\* the rules of a single submission, applied to one entry of a batch
ValidEntry(e) == Trim(e.student_name) # <<>> /\ Trim(e.exam_id) # <<>> /\ Len(e.files) > 0

\* C16 as stated: the upload request of a batch carries valid entries only.
C16_InvalidEntriesExcluded ==
    batch.upload.status # "none" =>
        \A k \in 1..Len(batch.request) : ValidEntry(batch.request[k])

\* C18: the page never shows the uploading flag and the processing flag
\* together, whether a run was started, its upload or its process resolved, or
\* either of them failed.
C18_FlagsExclusive == ~(uploading /\ processing)

\* the upload of a run has resolved and its process request is pending
C18_Witness ==
    /\ processing
    /\ ~uploading
    /\ Len(invs) > 0
    /\ invs[Len(invs)].pc = "awaitProcess"
    /\ success = MsgUploaded

\* a run in flight
InFlight(i) == invs[i].pc \in { "awaitUpload", "awaitProcess" }

\* C19: when every request returns, every run that passed validation ends,
\* succeeded or failed, with no step of the user needed: a run in flight leads
\* to a state in which the latest run has ended, and no run but the latest is
\* ever in flight; and once the latest run has ended both flags are false and
\* the Submit button depends on the form alone.
C19_EveryRunEnds ==
    /\ (\E i \in 1..Len(invs) : InFlight(i)) ~> Terminal
    /\ [](\A i \in 1..Len(invs) : InFlight(i) => i = Len(invs))
    /\ [](Terminal => ( /\ ~uploading
                        /\ ~processing
                        /\ SubmitDisabled = ~IsFormValid ))

\* a second run has ended after the first one did
C19_Witness ==
    /\ Len(invs) = 2
    /\ invs[1].pc \in { "succeeded", "failed" }
    /\ invs[2].pc \in { "succeeded", "failed" }
    /\ ~uploading
    /\ ~processing

\* the requests of the page that have not returned
OutstandingCalls == { k \in 1..Len(calls) : calls[k].status = "outstanding" }

\* C20: at most one run is in flight and at most one request of the page is
\* outstanding; a run starts only while neither flag is set and no run is in
\* flight.
C20_OneRunAtATime ==
    /\ [](Cardinality({ i \in 1..Len(invs) : InFlight(i) }) <= 1)
    /\ [](Cardinality(OutstandingCalls) <= 1)
    /\ [][Len(invs') > Len(invs) =>
            /\ ~uploading
            /\ ~processing
            /\ \A i \in 1..Len(invs) : ~InFlight(i)]_vars

\* a second run is in flight after the first one has ended
C20_Witness ==
    /\ Len(invs) = 2
    /\ ~InFlight(1)
    /\ InFlight(2)
    /\ Cardinality(OutstandingCalls) = 1

C21_ErrorExcludesSuccess == error # Null => success = Null

\* the upload id that the upload request of run i returned
SubmittedId(i) == { calls[k].upload_id : k \in { j \in CallsOf(i, "upload") : calls[j].status = "ok" } }

\* C22: a step schedules a navigation only when it is the success of the
\* process request of a run, and then for the upload id that the upload of
\* that run returned; so every navigation scheduled or made belongs to a
\* succeeded run, and no rejected or failed run has one.
C22_NavigationOnlyAfterProcess ==
    /\ [][\A id \in timers' \ timers :
            \E i \in 1..Len(invs) :
                /\ invs[i].pc = "awaitProcess"
                /\ invs'[i].pc = "succeeded"
                /\ SubmittedId(i) = { id }
                /\ \E k \in CallsOf(i, "process") :
                      calls[k].status = "outstanding" /\ calls'[k].status = "ok"]_vars
    /\ [][(error' # error /\ error' # Null) => timers' \subseteq timers]_vars
    /\ [](\A id \in timers \cup ( IF route = UploadRoute THEN {} ELSE { route.upload_id } ) :
            \E i \in 1..Len(invs) : invs[i].pc = "succeeded" /\ SubmittedId(i) = { id })

\* one run was rejected or failed, the next one succeeded, and the only
\* navigation scheduled is the one to the upload id of the run that succeeded
C22_Witness ==
    /\ Len(invs) = 2
    /\ invs[1].pc = "failed"
    /\ invs[2].pc = "succeeded"
    /\ timers = { invs[2].upload_id }
    /\ SubmittedId(2) = timers

====
